---- MODULE Spec2Model ----
(***************************************************************************)
(* BeReal export manager (bereal_exporter.py): the export run of           *)
(* run_no_curses / main_curses over a BeRealExporter, and the pure helpers *)
(* it is built from (init_time_span, resolve_img_path, localize_datetime,  *)
(* the time filters and the sort).                                         *)
(*                                                                         *)
(* Modelling conventions                                                   *)
(*  - an instant is an integer number of ticks since 1970-01-01T00:00Z;    *)
(*    output names are formatted per tick (strftime to the second);        *)
(*  - a timestamp string of the export is BadTime (key missing, or not     *)
(*    ISO-8601) or [wall, off]: a wall-clock reading with its UTC offset   *)
(*    ("Z" is offset 0); BeReal writes offset-carrying timestamps;         *)
(*  - a path string is the sequence of its '/'-separated segments;         *)
(*  - Python's None is the empty tuple for tuple-valued things;            *)
(*  - a Python call either returns or raises: Ret(v) / Raise(e).           *)
(***************************************************************************)
EXTENDS Integers, Sequences, FiniteSets, TLC

VARIABLES
    pc,          \* position of the runner (run_no_curses / main_curses)
    cfg,         \* the BeRealExporter's fields read during the export
    time_span,   \* self.time_span: <<start, end>>
    fs,          \* files of the export root: <<subdirectory of Photos, basename>>
    out_dirs,    \* directories created under the output root
    input,       \* the list handed to the running export_* call
    queue,       \* the filtered, sorted list the loop enumerates (positions of input)
    i,           \* number of loop iterations completed
    total,       \* the loop's `total`
    coll,        \* the export_* call whose locals input, queue, i, total are shown
    events,      \* what the runner has done for the current collection, in order
    call,        \* the last call of a helper: init_time_span in a run
    status       \* how far the runner has got with each collection

vars == <<pc, cfg, time_span, fs, out_dirs, input, queue, i, total, coll, events, call,
          status>>

None == <<>>
Some(x) == <<x>>

Ret(v) == [type |-> "return", value |-> v]
Raise(e) == [type |-> "raise", value |-> e]
Returned(r) == r.type = "return"

Last(s) == s[Len(s)]

----------------------------------------------------------------------------
(* Bounds                                                                  *)

\* longest collection read from memories.json / realmojis.json
MaxLen == 2

\* longest collection handed to the filter and the sort on their own
MaxItems == 4

\* ticks per calendar day, and days per calendar year, of the model's clock
TicksPerDay == 2
DaysPerYear == 2

\* the run takes place at the last tick of this day (days count from 1970-01-01)
RunDay == 1

----------------------------------------------------------------------------
(* resolve_img_path                                                        *)

PostDir == "post"
BerealDir == "bereal"
RealmojiDir == "Realmoji"

\* os.path.basename(path_str)
basename(path_str) == IF Len(path_str) = 0 THEN "" ELSE Last(path_str)

\* "/<dir>/" in path_str: some segment before the basename is <dir>
HasSegment(path_str, dir) == \E k \in 1..(Len(path_str) - 1) : path_str[k] = dir

\* os.path.isfile(os.path.join(self.bereal_path, "Photos/<dir>", base))
isfile(files, candidate) == candidate \in files

\* the fallback of resolve_img_path with the legacy directory tried first
resolve_fallback_legacy_first(files, base) ==
    LET p1 == <<PostDir, base>>
        p2 == <<BerealDir, base>>
    IN IF isfile(files, p2) THEN p2
       ELSE IF isfile(files, p1) THEN p1
       ELSE None

resolve_fallback(files, base) ==
    LET p1 == <<PostDir, base>>
        p2 == <<BerealDir, base>>
    IN IF isfile(files, p1) THEN p1
       ELSE IF isfile(files, p2) THEN p2
       ELSE None

resolve_img_path(files, path_str) ==
    LET base == basename(path_str)
    IN IF HasSegment(path_str, PostDir) /\ isfile(files, <<PostDir, base>>)
         THEN <<PostDir, base>>
       ELSE IF ~HasSegment(path_str, PostDir) /\ HasSegment(path_str, BerealDir)
               /\ isfile(files, <<BerealDir, base>>)
         THEN <<BerealDir, base>>
       ELSE resolve_fallback(files, base)

----------------------------------------------------------------------------
(* localize_datetime                                                       *)

\* self.default_tz when --default-timezone is absent (None) or empty: falsy
NoDefaultTz == ""

\* zone names the installed pytz knows
PytzZones == {"America/New_York", "Europe/Berlin"}

UTC == "UTC"

\* pytz.timezone(name)
pytz_timezone(name) ==
    IF name \in PytzZones THEN Ret(name) ELSE Raise("UnknownTimeZoneError")

\* dt_utc.astimezone(zone): the same instant, read in zone
astimezone(dt_utc, zone) == [utc |-> dt_utc.utc, zone |-> zone]

\* an aware datetime in UTC
UtcDatetime(t) == [utc |-> t, zone |-> UTC]

\* TimezoneFinder.timezone_at(lng=lon, lat=lat) over a fixed geography:
\* coordinates out of range raise, a point on land names its zone (one of
\* them a zone newer than the installed pytz), a point at sea names none.
timezone_at(lng, lat) ==
    IF lat < -90 \/ lat > 90 \/ lng < -180 \/ lng > 180 THEN Raise("ValueError")
    ELSE IF lat = 40 /\ lng = -74 THEN Ret("America/New_York")
    ELSE IF lat = -45 /\ lng = -72 THEN Ret("America/Coyhaique")
    ELSE Ret("")

Localized(d, source) == [dt |-> d, source |-> source]

\* the fallback with the try/except around pytz.timezone left out
fallback_default_unguarded(dt_utc, default_tz) ==
    IF default_tz # NoDefaultTz
      THEN IF Returned(pytz_timezone(default_tz))
             THEN Ret(Localized(astimezone(dt_utc, pytz_timezone(default_tz).value),
                                "fallback-default"))
             ELSE Raise("UnknownTimeZoneError")
      ELSE Ret(Localized(dt_utc, "none"))

\* `if self.default_tz: try: ... except: warn` then `return dt_utc`
fallback_default(dt_utc, default_tz) ==
    IF default_tz # NoDefaultTz /\ Returned(pytz_timezone(default_tz))
      THEN Ret(Localized(astimezone(dt_utc, pytz_timezone(default_tz).value),
                         "fallback-default"))
      ELSE Ret(Localized(dt_utc, "none"))

\* localize_datetime consulting the default zone before the geographic lookup
localize_datetime_default_first(default_tz, dt_utc, lat, lon) ==
    IF default_tz # NoDefaultTz /\ Returned(pytz_timezone(default_tz))
      THEN fallback_default(dt_utc, default_tz)
    ELSE IF lat = None \/ lon = None THEN fallback_default(dt_utc, default_tz)
    ELSE LET tz_name == timezone_at(lon[1], lat[1])
         IN IF Returned(tz_name) /\ tz_name.value # ""
                 /\ Returned(pytz_timezone(tz_name.value))
              THEN Ret(Localized(astimezone(dt_utc, tz_name.value), "geo"))
              ELSE fallback_default(dt_utc, default_tz)

localize_datetime(default_tz, dt_utc, lat, lon) ==
    IF lat = None \/ lon = None THEN fallback_default(dt_utc, default_tz)
    ELSE LET tz_name == timezone_at(lon[1], lat[1])
         IN IF ~Returned(tz_name)
              THEN fallback_default(dt_utc, default_tz)           \* except Exception
            ELSE IF tz_name.value # ""
              THEN IF Returned(pytz_timezone(tz_name.value))
                     THEN Ret(Localized(astimezone(dt_utc, tz_name.value), "geo"))
                     ELSE fallback_default(dt_utc, default_tz)    \* except Exception
            ELSE fallback_default(dt_utc, default_tz)             \* else: fallback

----------------------------------------------------------------------------
(* Time: init_time_span, the time filters, the sort key                    *)

EpochYear == 1970

DayStart(d) == d * TicksPerDay
DayEnd(d) == d * TicksPerDay + (TicksPerDay - 1)

\* dt.now(tz=timezone.utc)
Now == DayEnd(RunDay)

\* dt.min.replace(tzinfo=timezone.utc): 0001-01-01T00:00
DtMin == DayStart((1 - EpochYear) * DaysPerYear)

\* a DD.MM.YYYY string naming day d; "*" is the wildcard; anything else is no date
Date(d) == [kind |-> "date", day |-> d]
Wildcard == [kind |-> "*", day |-> 0]
Junk == [kind |-> "junk", day |-> 0]

NoTimespan == <<>>
NoYear == 0

\* dt.strptime(s, "%d.%m.%Y")
strptime(s) == IF s.kind = "date" THEN Ret(s.day) ELSE Raise("ValueError")

\* init_time_span with a lenient parser: a bound that is no date counts as "*"
init_time_span_lenient(timespan, year) ==
    IF timespan # NoTimespan /\ Len(timespan) = 2
      THEN Ret(<<IF Returned(strptime(timespan[1]))
                   THEN DayStart(strptime(timespan[1]).value) ELSE DayStart(0),
                 IF Returned(strptime(timespan[2]))
                   THEN DayEnd(strptime(timespan[2]).value) ELSE Now>>)
    ELSE IF timespan # NoTimespan THEN Raise("ValueError")
    ELSE IF year # NoYear
      THEN Ret(<<DayStart((year - EpochYear) * DaysPerYear),
                 DayEnd((year - EpochYear + 1) * DaysPerYear - 1)>>)
    ELSE Ret(<<DayStart(0), Now>>)

\* timespan: the '-'-separated parts of args.timespan (NoTimespan when absent)
init_time_span(timespan, year) ==
    IF timespan # NoTimespan
      THEN IF Len(timespan) # 2 THEN Raise("ValueError")   \* unpacking split("-")
           ELSE LET start_str == timespan[1]
                    end_str == timespan[2]
                IN IF start_str.kind # "*" /\ ~Returned(strptime(start_str))
                     THEN Raise("ValueError")
                   ELSE IF end_str.kind # "*" /\ ~Returned(strptime(end_str))
                     THEN Raise("ValueError")
                   ELSE Ret(<<IF start_str.kind = "*" THEN DayStart(0)
                                ELSE DayStart(strptime(start_str).value),
                              IF end_str.kind = "*" THEN Now
                                ELSE DayEnd(strptime(end_str).value)>>)
    ELSE IF year # NoYear
      THEN Ret(<<DayStart((year - EpochYear) * DaysPerYear),
                 DayEnd((year - EpochYear + 1) * DaysPerYear - 1)>>)
    ELSE Ret(<<DayStart(0), Now>>)

\* a timestamp string: ISO-8601 with wall-clock reading and UTC offset, or not
IsoTime(w, o) == [iso |-> TRUE, wall |-> w, off |-> o]
BadTime == [iso |-> FALSE, wall |-> 0, off |-> 0]

\* dt.fromisoformat(raw.replace("Z", "+00:00")): aware datetimes compare by instant
fromisoformat(raw) == IF raw.iso THEN Ret(raw.wall - raw.off) ELSE Raise("ValueError")

\* the filter's test with the end bound exclusive
in_timespan_open_end(span, raw) ==
    /\ Returned(fromisoformat(raw))
    /\ span[1] <= fromisoformat(raw).value
    /\ fromisoformat(raw).value < span[2]

\* try: d = parse(...) except: continue; if start_dt <= d <= end_dt
in_timespan(span, raw) ==
    /\ Returned(fromisoformat(raw))
    /\ span[1] <= fromisoformat(raw).value
    /\ fromisoformat(raw).value <= span[2]

Positions(items) == [k \in 1..Len(items) |-> k]

\* the lists of the model hold positions of the input list (the identity of
\* the record object), and the record is read through the position
filter_memories_in_timespan(span, memories) ==
    SelectSeq(Positions(memories), LAMBDA k : in_timespan(span, memories[k].takenTime))

filter_realmojis_in_timespan(span, realmojis) ==
    SelectSeq(Positions(realmojis), LAMBDA k : in_timespan(span, realmojis[k].postedAt))

\* dt_key of export_memories / export_realmojis
dt_key(raw) == IF Returned(fromisoformat(raw)) THEN fromisoformat(raw).value ELSE DtMin

\* list.sort(key=...) is a stable ascending sort: insertion after the equal keys
RECURSIVE InsertByKey(_, _, _)
InsertByKey(sorted, x, key) ==
    IF sorted = <<>> THEN <<x>>
    ELSE IF key[x] < key[Head(sorted)] THEN <<x>> \o sorted
    ELSE <<Head(sorted)>> \o InsertByKey(Tail(sorted), x, key)

\* insertion before the equal keys: ascending, but not stable
RECURSIVE InsertByKeyUnstable(_, _, _)
InsertByKeyUnstable(sorted, x, key) ==
    IF sorted = <<>> THEN <<x>>
    ELSE IF key[x] <= key[Head(sorted)] THEN <<x>> \o sorted
    ELSE <<Head(sorted)>> \o InsertByKeyUnstable(Tail(sorted), x, key)

RECURSIVE sort_unstable(_, _)
sort_unstable(list, key) ==
    IF list = <<>> THEN <<>>
    ELSE InsertByKeyUnstable(sort_unstable(SubSeq(list, 1, Len(list) - 1), key),
                             Last(list), key)

RECURSIVE sort(_, _)
sort(list, key) ==
    IF list = <<>> THEN <<>>
    ELSE InsertByKey(sort(SubSeq(list, 1, Len(list) - 1), key), Last(list), key)

\* memories = filter(...); memories.sort(key=dt_key)
sorted_memories(span, memories) ==
    sort(filter_memories_in_timespan(span, memories),
         [k \in 1..Len(memories) |-> dt_key(memories[k].takenTime)])

sorted_realmojis(span, realmojis) ==
    sort(filter_realmojis_in_timespan(span, realmojis),
         [k \in 1..Len(realmojis) |-> dt_key(realmojis[k].postedAt)])

----------------------------------------------------------------------------
(* What a run does, as a trace: copies, embed requests, composites, forced *)
(* log lines and show_progress calls                                       *)

Ev(op, rec, file, ok, info) ==
    [op |-> op, rec |-> rec, file |-> file, ok |-> ok, info |-> info]

\* self.log(msg, force=True) / logger.print_log(msg, force=True)
Log(rec, msg) == Ev("log", rec, None, TRUE, msg)

\* self.show_progress(n, tot, ...)
Progress(rec, n, tot) == Ev("progress", rec, None, TRUE, <<n, tot>>)

\* outcomes of shutil.copy2
CopyOutcomes == {"ok", "OSError", "FileNotFoundError"}

\* what the environment does to one loop iteration: the two copies, the
\* ExifTool runs on front, back and composite, and Pillow's composite
\* (an outcome of a call that is not reached is left at its first value)
Outcomes ==
    {o \in [cf : CopyOutcomes, cb : CopyOutcomes,
            ef : BOOLEAN, eb : BOOLEAN, pil : BOOLEAN, ec : BOOLEAN] :
       /\ o.cf # "ok" => (o.ef /\ o.cb = "ok")
       /\ (o.cf # "ok" \/ o.cb # "ok") => (o.eb /\ o.pil)
       /\ (o.cf # "ok" \/ o.cb # "ok" \/ ~o.pil) => o.ec}

\* export_realmojis makes one copy and one embed request per iteration
RealmojiOutcomes ==
    {o \in Outcomes : o.cb = "ok" /\ o.eb /\ o.pil /\ o.ec}

Step(raised, ret, evs, wrote) ==
    [raised |-> raised, ret |-> ret, evs |-> evs, wrote |-> wrote]

\* the tags of embed_exif: localize_datetime never raises on the code's paths
exif_tags(default_tz, dt_utc, lat, lon) ==
    [DateTimeOriginal |-> localize_datetime(default_tz, dt_utc, lat, lon).value.dt,
     GPS |-> IF lat # None /\ lon # None
               THEN <<IF lat[1] >= 0 THEN "N" ELSE "S", IF lat[1] >= 0 THEN lat[1] ELSE -lat[1],
                      IF lon[1] >= 0 THEN "E" ELSE "W", IF lon[1] >= 0 THEN lon[1] ELSE -lon[1]>>
               ELSE None]

\* embed_exif: the ExifTool failure is logged, never raised
embed_exif(default_tz, rec, file_name, dt_utc, lat, lon, et_ok) ==
    <<Ev("embed", rec, file_name, et_ok, exif_tags(default_tz, dt_utc, lat, lon))>>
    \o (IF et_ok THEN <<>> ELSE <<Log(rec, "Error embedding EXIF")>>)

\* copy_and_embed asking ExifTool, which overwrites in place, to tag the source
copy_and_embed_tag_source(files, default_tz, rec, old_path, new_path, dt_utc, lat, lon, cp_out, et_ok) ==
    IF old_path = None \/ ~isfile(files, old_path)
      THEN Step("", None, <<Log(rec, "File not found")>>, {})
    ELSE IF cp_out # "ok"
      THEN Step(cp_out, None, <<Ev("copy", rec, new_path, FALSE, old_path)>>, {})
    ELSE Step("", new_path,
              <<Ev("copy", rec, new_path, TRUE, old_path)>>
              \o embed_exif(default_tz, rec, old_path, dt_utc, lat, lon, et_ok),
              {new_path})

\* copy_and_embed: cp is outside any try
copy_and_embed(files, default_tz, rec, old_path, new_path, dt_utc, lat, lon, cp_out, et_ok) ==
    IF old_path = None \/ ~isfile(files, old_path)
      THEN Step("", None, <<Log(rec, "File not found")>>, {})
    ELSE IF cp_out # "ok"
      THEN Step(cp_out, None, <<Ev("copy", rec, new_path, FALSE, old_path)>>, {})
    ELSE Step("", new_path,
              <<Ev("copy", rec, new_path, TRUE, old_path)>>
              \o embed_exif(default_tz, rec, new_path, dt_utc, lat, lon, et_ok),
              {new_path})

\* create_composite: Pillow's failure is logged, never raised
create_composite(default_tz, rec, front_path, back_path, out_path, dt_utc, lat, lon, pil_ok, et_ok) ==
    IF ~pil_ok
      THEN Step("", None,
                <<Ev("composite", rec, out_path, FALSE, <<front_path, back_path>>),
                  Log(rec, "Error creating composite")>>, {})
      ELSE Step("", out_path,
                <<Ev("composite", rec, out_path, TRUE, <<front_path, back_path>>)>>
                \o embed_exif(default_tz, rec, out_path, dt_utc, lat, lon, et_ok),
                {out_path})

\* the skip test checking the front image only
skip_memory_front_only(front_src, back_src) == front_src = None

\* if not front_src or not back_src
skip_memory(front_src, back_src) == front_src = None \/ back_src = None

\* the composite test without the --no-composites switch
wants_composite_always(create_composites, final_front, final_back) ==
    final_front # None /\ final_back # None

\* if self.create_composites and final_front and final_back
wants_composite(create_composites, final_front, final_back) ==
    create_composites /\ final_front # None /\ final_back # None

OutName(dir, t, role) == <<dir, t, role>>

\* one iteration of the loop of export_memories, on the record at position rec
memory_iteration(files, c, mem, rec, n, tot, o) ==
    LET m_dt_utc == UtcDatetime(fromisoformat(mem.takenTime).value)
        lat == mem.location.latitude
        lon == mem.location.longitude
        front_src == resolve_img_path(files, mem.frontImage)
        back_src == resolve_img_path(files, mem.backImage)
        base_ts == m_dt_utc.utc
        F == copy_and_embed(files, c.default_tz, rec, front_src,
                            OutName("memories", base_ts, "front"),
                            m_dt_utc, lat, lon, o.cf, o.ef)
        B == copy_and_embed(files, c.default_tz, rec, back_src,
                            OutName("memories", base_ts, "back"),
                            m_dt_utc, lat, lon, o.cb, o.eb)
        C == IF wants_composite(c.create_composites, F.ret, B.ret)
               THEN create_composite(c.default_tz, rec, F.ret, B.ret,
                                     OutName("composites", base_ts, "composite"),
                                     m_dt_utc, lat, lon, o.pil, o.ec)
               ELSE Step("", None, <<>>, {})
    IN IF skip_memory(front_src, back_src)
         THEN Step("", None,
                   <<Log(rec, "Skipping memory due to missing front/back images."),
                     Progress(rec, n, tot)>>, {})
       ELSE IF F.raised # "" THEN F
       ELSE IF B.raised # "" THEN Step(B.raised, None, F.evs \o B.evs, F.wrote)
       ELSE Step("", None,
                 F.evs \o B.evs \o C.evs \o <<Progress(rec, n, tot)>>,
                 F.wrote \cup B.wrote \cup C.wrote)

\* one iteration of the loop of export_realmojis
realmoji_iteration(files, c, rm, rec, n, tot, o) ==
    LET rm_dt_utc == UtcDatetime(fromisoformat(rm.postedAt).value)
        old_path == <<RealmojiDir, basename(rm.media)>>
        R == copy_and_embed(files, c.default_tz, rec, old_path,
                            OutName("realmojis", rm_dt_utc.utc, ""),
                            rm_dt_utc, None, None, o.cf, o.ef)
    IN IF R.raised # "" THEN R
       ELSE Step("", None, R.evs \o <<Progress(rec, n, tot)>>, R.wrote)

----------------------------------------------------------------------------
(* The inputs of a run                                                     *)

Location(lat, lon) == [latitude |-> lat, longitude |-> lon]
\* mem.get("location", {}) of a memory without location
NoLocation == Location(None, None)
NewYork == Location(Some(40), Some(-74))

Memory(t, front, back, loc) ==
    [takenTime |-> t, frontImage |-> front, backImage |-> back, location |-> loc]
Realmoji(t, media) == [postedAt |-> t, media |-> media]

FrontRef == <<"Photos", "u1", "post", "f.webp">>
BackRef == <<"Photos", "u1", "bereal", "b.webp">>
GoneRef == <<"Photos", "u1", "post", "gone.webp">>
RmRef == <<"Photos", "u1", "realmoji", "r.webp">>
RmGoneRef == <<"Photos", "u1", "realmoji", "gone.webp">>

\* export roots: front in the current layout and back in the legacy one;
\* one where the front image is in neither
RunFileSystems ==
    { {<<PostDir, "f.webp">>, <<BerealDir, "b.webp">>, <<RealmojiDir, "r.webp">>},
      {<<BerealDir, "b.webp">>, <<RealmojiDir, "r.webp">>} }

\* timestamps of the records: the last tick of day 0 written with offset 0
\* and with offset 1 (two strings, one instant), and the first tick of day 1
LateDay0 == IsoTime(DayEnd(0), 0)
LateDay0Plus1 == IsoTime(DayEnd(0) + 1, 1)
EarlyDay1 == IsoTime(DayStart(1), 0)

RunMemories ==
    {Memory(BadTime, FrontRef, BackRef, NoLocation),
     Memory(LateDay0, FrontRef, BackRef, NoLocation),
     Memory(LateDay0Plus1, FrontRef, BackRef, NewYork),
     Memory(EarlyDay1, FrontRef, BackRef, NoLocation),
     Memory(LateDay0, FrontRef, GoneRef, NoLocation)}

RunRealmojis ==
    {Realmoji(BadTime, RmRef),
     Realmoji(LateDay0, RmRef),
     Realmoji(EarlyDay1, RmRef),
     Realmoji(LateDay0, RmGoneRef)}

RECURSIVE ListsUpTo(_, _)
ListsUpTo(S, n) ==
    IF n = 0 THEN {<<>>}
    ELSE LET shorter == ListsUpTo(S, n - 1)
         IN shorter \cup {Append(l, x) : l \in shorter, x \in S}

\* the command lines of the runs explored
RunTimespans ==
    {NoTimespan, <<Date(0), Date(0)>>, <<Date(1), Wildcard>>, <<Date(1), Date(0)>>,
     <<Junk, Wildcard>>, <<Date(0), Junk>>, <<Wildcard>>, <<Date(0), Date(0), Date(1)>>}

RunArgs ==
    [timespan : RunTimespans,
     year : {NoYear},
     composites : BOOLEAN,
     default_tz : {NoDefaultTz, "Europe/Berlin"}]

NoCfg == [create_composites |-> FALSE, default_tz |-> NoDefaultTz]
NoCall == [fn |-> "", args |-> <<>>, ret |-> <<>>]

\* neither `if args.memories:` nor `if args.realmojis:` has been reached
NoStatus == [memories |-> "unread", realmojis |-> "unread"]

----------------------------------------------------------------------------
(* The run: run_no_curses / main_curses                                    *)
(* args.memories and args.realmojis are each read once, by the runner: the *)
(* run takes the value at the read (SkipX against LoadXFails / BeginX).    *)
(* The locals of an export_* call (input, queue, i, total) and the trace   *)
(* of its collection end with the call's return.                           *)

Init ==
    /\ pc = "start"
    /\ cfg = NoCfg
    /\ time_span = <<0, 0>>
    /\ fs \in RunFileSystems
    /\ out_dirs = {}
    /\ input = <<>>
    /\ queue = <<>>
    /\ i = 0
    /\ total = 0
    /\ coll = ""
    /\ events = <<>>
    /\ call = NoCall
    /\ status = NoStatus

\* BeRealExporter(args, logger): __init__ returns
Construct ==
    /\ pc = "start"
    /\ \E a \in RunArgs :
         /\ Returned(init_time_span(a.timespan, a.year))
         /\ call' = [fn |-> "init_time_span", args |-> <<a.timespan, a.year>>,
                     ret |-> init_time_span(a.timespan, a.year)]
         /\ time_span' = init_time_span(a.timespan, a.year).value
         /\ cfg' = [create_composites |-> a.composites, default_tz |-> a.default_tz]
    /\ pc' = "memories"
    /\ UNCHANGED <<fs, out_dirs, input, queue, i, total, coll, events, status>>

\* BeRealExporter(args, logger): init_time_span raises ValueError
ConstructFails ==
    /\ pc = "start"
    /\ \E a \in RunArgs :
         /\ ~Returned(init_time_span(a.timespan, a.year))
         /\ call' = [fn |-> "init_time_span", args |-> <<a.timespan, a.year>>,
                     ret |-> init_time_span(a.timespan, a.year)]
    /\ pc' = "config_error"
    /\ UNCHANGED <<cfg, time_span, fs, out_dirs, input, queue, i, total,
                   coll, events, status>>

\* what open(..., encoding="utf-8") and json.load raise on a collection's file
\* that is missing, is no JSON, or is no UTF-8 text
LoadErrors == {"FileNotFoundError", "JSONDecodeError", "UnicodeDecodeError"}

\* the except clauses of the runner around a collection
CaughtErrors == {"FileNotFoundError", "JSONDecodeError"}

\* if args.memories: false
SkipMemories ==
    /\ pc = "memories"
    /\ pc' = "realmojis"
    /\ status' = [status EXCEPT !.memories = "off"]
    /\ UNCHANGED <<cfg, time_span, fs, out_dirs, input, queue, i, total,
                   coll, events, call>>

\* open / json.load of memories.json raise
LoadMemoriesFails ==
    /\ pc = "memories"
    /\ \E e \in LoadErrors :
         IF e \in CaughtErrors
           THEN events' = <<Log(0, <<"memories.json", e>>)>> /\ pc' = "realmojis"
           ELSE events' = <<>> /\ pc' = "crashed"
    /\ input' = <<>> /\ queue' = <<>> /\ i' = 0 /\ total' = 0 /\ coll' = ""
    /\ status' = [status EXCEPT !.memories = "load_failed"]
    /\ UNCHANGED <<cfg, time_span, fs, out_dirs, call>>

\* exporter.export_memories(mems) up to the loop: filter, sort, makedirs, total
BeginMemories ==
    /\ pc = "memories"
    /\ \E mems \in ListsUpTo(RunMemories, MaxLen) :
         /\ input' = mems
         /\ queue' = sorted_memories(time_span, mems)
    /\ total' = Len(queue')
    /\ i' = 0
    /\ coll' = "memories"
    /\ events' = <<>>
    /\ out_dirs' = out_dirs \cup {"memories", "composites"}
    /\ pc' = "export_memories"
    /\ status' = [status EXCEPT !.memories = "running"]
    /\ UNCHANGED <<cfg, time_span, fs, call>>

\* where an exception leaving export_* takes the runner: FileNotFoundError is
\* caught by the runner's except clause of that collection, anything else is not
AfterRaise(raised, next) == IF raised = "FileNotFoundError" THEN next ELSE "crashed"

\* one iteration of `for i, mem in enumerate(memories, start=1)`
MemoryIteration ==
    /\ pc = "export_memories"
    /\ i < total
    /\ \E o \in Outcomes :
         LET rec == queue[i + 1]
             r == memory_iteration(fs, cfg, input[rec], rec, i + 1, total, o)
         IN IF r.raised = ""
              THEN /\ events' = events \o r.evs
                   /\ i' = i + 1
                   /\ pc' = pc
                   /\ status' = status
              ELSE /\ events' = events \o r.evs
                                \o (IF r.raised = "FileNotFoundError"
                                      THEN <<Log(0, <<"memories.json", r.raised>>)>>
                                      ELSE <<>>)
                   /\ i' = i
                   /\ pc' = AfterRaise(r.raised, "realmojis")
                   /\ status' = [status EXCEPT !.memories = "aborted"]
    /\ UNCHANGED <<cfg, time_span, fs, out_dirs, input, queue, total, coll, call>>

\* the loop of export_memories is exhausted: the call returns
MemoriesDone ==
    /\ pc = "export_memories"
    /\ i = total
    /\ pc' = "realmojis"
    /\ input' = <<>> /\ queue' = <<>> /\ i' = 0 /\ total' = 0 /\ coll' = ""
    /\ events' = <<>>
    /\ status' = [status EXCEPT !.memories = "done"]
    /\ UNCHANGED <<cfg, time_span, fs, out_dirs, call>>

\* if args.realmojis: false
SkipRealmojis ==
    /\ pc = "realmojis"
    /\ pc' = "exit"
    /\ status' = [status EXCEPT !.realmojis = "off"]
    /\ UNCHANGED <<cfg, time_span, fs, out_dirs, input, queue, i, total,
                   coll, events, call>>

\* open / json.load of realmojis.json raise
LoadRealmojisFails ==
    /\ pc = "realmojis"
    /\ \E e \in LoadErrors :
         IF e \in CaughtErrors
           THEN events' = <<Log(0, <<"realmojis.json", e>>)>> /\ pc' = "exit"
           ELSE events' = <<>> /\ pc' = "crashed"
    /\ input' = <<>> /\ queue' = <<>> /\ i' = 0 /\ total' = 0 /\ coll' = ""
    /\ status' = [status EXCEPT !.realmojis = "load_failed"]
    /\ UNCHANGED <<cfg, time_span, fs, out_dirs, call>>

\* exporter.export_realmojis(rms) up to the loop: filter, sort, makedirs, total
BeginRealmojis ==
    /\ pc = "realmojis"
    /\ \E rms \in ListsUpTo(RunRealmojis, MaxLen) :
         /\ input' = rms
         /\ queue' = sorted_realmojis(time_span, rms)
    /\ total' = Len(queue')
    /\ i' = 0
    /\ coll' = "realmojis"
    /\ events' = <<>>
    /\ out_dirs' = out_dirs \cup {"realmojis"}
    /\ pc' = "export_realmojis"
    /\ status' = [status EXCEPT !.realmojis = "running"]
    /\ UNCHANGED <<cfg, time_span, fs, call>>

\* one iteration of `for i, rm in enumerate(realmojis, start=1)`
RealmojiIteration ==
    /\ pc = "export_realmojis"
    /\ i < total
    /\ \E o \in RealmojiOutcomes :
         LET rec == queue[i + 1]
             r == realmoji_iteration(fs, cfg, input[rec], rec, i + 1, total, o)
         IN IF r.raised = ""
              THEN /\ events' = events \o r.evs
                   /\ i' = i + 1
                   /\ pc' = pc
                   /\ status' = status
              ELSE /\ events' = events \o r.evs
                                \o (IF r.raised = "FileNotFoundError"
                                      THEN <<Log(0, <<"realmojis.json", r.raised>>)>>
                                      ELSE <<>>)
                   /\ i' = i
                   /\ pc' = AfterRaise(r.raised, "exit")
                   /\ status' = [status EXCEPT !.realmojis = "aborted"]
    /\ UNCHANGED <<cfg, time_span, fs, out_dirs, input, queue, total, coll, call>>

\* the loop of export_realmojis is exhausted: the call returns
RealmojisDone ==
    /\ pc = "export_realmojis"
    /\ i = total
    /\ pc' = "exit"
    /\ input' = <<>> /\ queue' = <<>> /\ i' = 0 /\ total' = 0 /\ coll' = ""
    /\ events' = <<>>
    /\ status' = [status EXCEPT !.realmojis = "done"]
    /\ UNCHANGED <<cfg, time_span, fs, out_dirs, call>>

Next ==
    \/ Construct
    \/ ConstructFails
    \/ SkipMemories
    \/ LoadMemoriesFails
    \/ BeginMemories
    \/ MemoryIteration
    \/ MemoriesDone
    \/ SkipRealmojis
    \/ LoadRealmojisFails
    \/ BeginRealmojis
    \/ RealmojiIteration
    \/ RealmojisDone

Spec == Init /\ [][Next]_vars

----------------------------------------------------------------------------
(* The helpers applied on their own                                        *)

\* resolve_img_path over every export root holding some of these files
ResolveFiles == {PostDir, BerealDir} \X {"a.webp", "b.webp"}
ResolveRefs ==
    {dirs \o <<base>> :
        dirs \in {<<>>, <<"Photos", PostDir>>, <<"Photos", BerealDir>>, <<"Photos", "other">>,
                  <<PostDir, BerealDir>>, <<BerealDir, PostDir>>},
        base \in {"a.webp", "b.webp"}}

InitResolve ==
    /\ pc = "resolve"
    /\ \E files \in SUBSET ResolveFiles :
         /\ fs = files
         /\ cfg = NoCfg /\ time_span = <<0, 0>> /\ out_dirs = {} /\ input = <<>>
         /\ queue = <<>> /\ i = 0 /\ total = 0 /\ coll = "" /\ events = <<>>
         /\ call = NoCall /\ status = NoStatus

CallResolve ==
    /\ pc = "resolve"
    /\ \E path_str \in ResolveRefs :
         call' = [fn |-> "resolve_img_path", args |-> <<path_str>>,
                  ret |-> resolve_img_path(fs, path_str)]
    /\ UNCHANGED <<pc, cfg, time_span, fs, out_dirs, input, queue, i, total, coll, events,
                   status>>

NextResolve == CallResolve

SpecResolve == InitResolve /\ [][NextResolve]_vars

\* localize_datetime over absent, in-range and out-of-range coordinates and
\* absent, known and unknown default zones
Latitudes == {None, Some(40), Some(-45), Some(0), Some(91)}
Longitudes == {None, Some(-74), Some(-72), Some(0), Some(181)}
DefaultZones == {NoDefaultTz, "Europe/Berlin", "Mars/Phobos"}

InitLocalize ==
    /\ pc = "localize"
    /\ \E z \in DefaultZones :
         /\ cfg = [create_composites |-> FALSE, default_tz |-> z]
         /\ time_span = <<0, 0>> /\ fs = {} /\ out_dirs = {} /\ input = <<>>
         /\ queue = <<>> /\ i = 0 /\ total = 0 /\ coll = "" /\ events = <<>>
         /\ call = NoCall /\ status = NoStatus

CallLocalize ==
    /\ pc = "localize"
    /\ \E t \in {DayStart(0), Now}, lat \in Latitudes, lon \in Longitudes :
         call' = [fn |-> "localize_datetime", args |-> <<UtcDatetime(t), lat, lon>>,
                  ret |-> localize_datetime(cfg.default_tz, UtcDatetime(t), lat, lon)]
    /\ UNCHANGED <<pc, cfg, time_span, fs, out_dirs, input, queue, i, total, coll, events,
                   status>>

NextLocalize == CallLocalize

SpecLocalize == InitLocalize /\ [][NextLocalize]_vars

\* the first lines of export_memories / export_realmojis (filter, sort, total)
\* over every short collection of these timestamps and every window
OrderTimes == {BadTime} \cup {IsoTime(w, o) : w \in 1..3, o \in 0..1}
OrderMemories == {Memory(t, FrontRef, BackRef, NoLocation) : t \in OrderTimes}
OrderRealmojis == {Realmoji(t, RmRef) : t \in OrderTimes}
OrderTimespans ==
    {NoTimespan, <<Date(0), Date(0)>>, <<Date(1), Wildcard>>, <<Date(1), Date(0)>>}

InitOrder ==
    /\ pc = "order"
    /\ \E ts \in OrderTimespans : time_span = init_time_span(ts, NoYear).value
    /\ \/ coll = "memories" /\ input \in ListsUpTo(OrderMemories, MaxItems)
       \/ coll = "realmojis" /\ input \in ListsUpTo(OrderRealmojis, MaxItems)
    /\ cfg = NoCfg /\ fs = {} /\ out_dirs = {}
    /\ queue = <<>> /\ i = 0 /\ total = 0 /\ events = <<>>
    /\ call = NoCall
    /\ status = NoStatus

OrderMemoriesCall ==
    /\ pc = "order"
    /\ coll = "memories"
    /\ call = NoCall
    /\ call' = [fn |-> "filter_memories_in_timespan", args |-> <<input>>,
                ret |-> filter_memories_in_timespan(time_span, input)]
    /\ queue' = sorted_memories(time_span, input)
    /\ total' = Len(queue')
    /\ UNCHANGED <<pc, cfg, time_span, fs, out_dirs, input, i, coll, events, status>>

OrderRealmojisCall ==
    /\ pc = "order"
    /\ coll = "realmojis"
    /\ call = NoCall
    /\ call' = [fn |-> "filter_realmojis_in_timespan", args |-> <<input>>,
                ret |-> filter_realmojis_in_timespan(time_span, input)]
    /\ queue' = sorted_realmojis(time_span, input)
    /\ total' = Len(queue')
    /\ UNCHANGED <<pc, cfg, time_span, fs, out_dirs, input, i, coll, events, status>>

NextOrder == OrderMemoriesCall \/ OrderRealmojisCall

SpecOrder == InitOrder /\ [][NextOrder]_vars

----------------------------------------------------------------------------
(* Properties                                                              *)

EvIdx == 1..Len(events)
IsOp(k, op) == events[k].op = op
\* the record at position rec of the input names an image that is in the
\* export root under Photos/post or Photos/bereal
InExportRoot(path_str) ==
    \E dir \in {PostDir, BerealDir} : <<dir, path_str[Len(path_str)]>> \in fs
\* the instant a timestamp string denotes
InstantOf(raw) == raw.wall - raw.off
\* the loop of the export_* call shown is exhausted
Exhausted == pc \in {"export_memories", "export_realmojis"} /\ i = total
\* show_progress was called for the n-th record of the loop
Progressed(n) == \E k \in EvIdx : IsOp(k, "progress") /\ events[k].info[1] = n

\* C1: no per-record error aborts the batch: when a copy has failed, the
\* records after the failing one that passed the time filter are still
\* processed (each reaches its show_progress call).
C1_NoRecordErrorAbortsBatch ==
    \A k \in EvIdx :
        (IsOp(k, "copy") /\ ~events[k].ok) =>
            \A n \in 1..Len(queue) : (queue[n] # events[k].rec) => Progressed(n)

\* C2: a memory whose front or back image does not resolve to a file has no
\* image copied, no metadata embedding requested and no composite attempted.
C2_AllOrNothingResolution ==
    coll = "memories" =>
        \A k \in EvIdx :
            events[k].op \in {"copy", "embed", "composite"} =>
                /\ InExportRoot(input[events[k].rec].frontImage)
                /\ InExportRoot(input[events[k].rec].backImage)

\* C2 witness: a memory with its front image present and its back image
\* missing has gone through its iteration (skipped, progress emitted).
C2_Witness ==
    /\ coll = "memories"
    /\ \E k \in EvIdx :
         /\ IsOp(k, "progress")
         /\ InExportRoot(input[events[k].rec].frontImage)
         /\ ~InExportRoot(input[events[k].rec].backImage)

\* C3: the loop enumerates the records that passed the filter in ascending
\* order of their instant, and records of equal instant in input order.
C3_SortedStable ==
    (pc = "order" /\ call # NoCall) =>
        /\ Len(queue) = Len(call.ret)
        /\ \A k \in 1..Len(call.ret) : \E n \in 1..Len(queue) : queue[n] = call.ret[k]
        /\ \A a, b \in 1..Len(queue) :
             a < b =>
               LET ta == InstantOf(IF coll = "memories" THEN input[queue[a]].takenTime
                                                         ELSE input[queue[a]].postedAt)
                   tb == InstantOf(IF coll = "memories" THEN input[queue[b]].takenTime
                                                         ELSE input[queue[b]].postedAt)
               IN /\ ta <= tb
                  /\ (ta = tb => queue[a] < queue[b])

\* C3 witness: three memories given as [T3, T1, T1'] with T1 and T1' two
\* strings of one instant: the loop takes the second, the third, then the first.
C3_Witness ==
    /\ pc = "order" /\ call # NoCall /\ coll = "memories"
    /\ queue = <<2, 3, 1>>
    /\ input[2].takenTime # input[3].takenTime

\* C4: the filters keep exactly the records whose timestamp parses and lies
\* in [start, end], both bounds included, in input order, and return for
\* every input.
C4_FilterExact ==
    (pc = "order" /\ call # NoCall) =>
        LET kept == call.ret
            raw(k) == IF coll = "memories" THEN input[k].takenTime ELSE input[k].postedAt
        IN /\ \A a, b \in 1..Len(kept) : a < b => kept[a] < kept[b]
           /\ \A k \in 1..Len(input) :
                (\E a \in 1..Len(kept) : kept[a] = k)
                <=> /\ raw(k).iso
                    /\ time_span[1] <= InstantOf(raw(k))
                    /\ InstantOf(raw(k)) <= time_span[2]

\* C4 witness: a window applied to a record at its start (kept), a record
\* at its end (kept), a record one tick before its start and a record with
\* an unparsable timestamp (both dropped).
C4_Witness ==
    /\ pc = "order" /\ call # NoCall /\ coll = "realmojis"
    /\ time_span[1] < time_span[2]
    /\ \E a, b, c, d \in 1..Len(input) :
         /\ input[a].postedAt.iso /\ InstantOf(input[a].postedAt) = time_span[1]
         /\ input[b].postedAt.iso /\ InstantOf(input[b].postedAt) = time_span[2]
         /\ input[c].postedAt.iso /\ InstantOf(input[c].postedAt) = time_span[1] - 1
         /\ ~input[d].postedAt.iso
         /\ call.ret = <<a, b>>

\* C5: one progress unit per input record: every show_progress call is given
\* the number of input records as its total, and an exhausted loop has made
\* as many calls as there are input records.
C5_ProgressPerInputRecord ==
    /\ \A k \in EvIdx : IsOp(k, "progress") => events[k].info[2] = Len(input)
    /\ Exhausted => Cardinality({k \in EvIdx : IsOp(k, "progress")}) = Len(input)

\* C6: the fallback chain in order: a coordinate absent: the default zone
\* when one is supplied, else UTC; both present and the lookup names a known
\* zone: that zone, whatever the default; the lookup names no zone or
\* fails: the default zone when one is supplied, else UTC.
C6_FallbackChain ==
    (pc = "localize" /\ call # NoCall) =>
        LET dt_utc == call.args[1]
            lat == call.args[2]
            lon == call.args[3]
            ret == call.ret.value
            supplied == cfg.default_tz \in PytzZones
            by_default ==
                IF supplied
                  THEN ret.source = "fallback-default" /\ ret.dt.zone = cfg.default_tz
                  ELSE ret.source = "none" /\ ret.dt.zone = UTC
            \* the one point of the inputs whose zone the lookup and pytz both know
            in_new_york == lat = Some(40) /\ lon = Some(-74)
        IN /\ call.ret.type = "return"
           /\ (lat = None \/ lon = None) => by_default
           /\ in_new_york => ret.source = "geo" /\ ret.dt.zone = "America/New_York"
           /\ (lat # None /\ lon # None /\ ~in_new_york) => by_default

\* C6 witness: coordinates of New York with a default zone supplied: the
\* geographic zone is chosen and the default is not used.
C6_Witness ==
    /\ pc = "localize" /\ call # NoCall
    /\ cfg.default_tz = "Europe/Berlin"
    /\ call.args[2] = Some(40) /\ call.args[3] = Some(-74)
    /\ call.ret.value.source = "geo"

\* C7: localize_datetime returns for every input, with the instant it was
\* given and a source among geo, fallback-default and none; with an
\* unrecognized default zone a fallback keeps the UTC reading.
C7_TotalNeverRaises ==
    (pc = "localize" /\ call # NoCall) =>
        /\ call.ret.type = "return"
        /\ call.ret.value.source \in {"geo", "fallback-default", "none"}
        /\ call.ret.value.dt.utc = call.args[1].utc
        /\ (cfg.default_tz \notin PytzZones /\ call.ret.value.source # "geo")
             => /\ call.ret.value.source = "none"
                /\ call.ret.value.dt = call.args[1]

\* C7 witness: out-of-range coordinates with an unrecognized default zone:
\* the call returns the unchanged UTC instant.
C7_Witness ==
    /\ pc = "localize" /\ call # NoCall
    /\ cfg.default_tz = "Mars/Phobos"
    /\ call.args[2] = Some(91) /\ call.args[3] = Some(181)
    /\ call.ret = Ret(Localized(call.args[1], "none"))

\* C8: resolution is by basename: the directory the reference hints at
\* first, then Photos/post, then Photos/bereal; the result is the first of
\* these that is a file, and None exactly when the basename is in neither.
C8_ResolutionOrder ==
    (pc = "resolve" /\ call # NoCall) =>
        LET path_str == call.args[1]
            base == path_str[Len(path_str)]
            hint_dirs == {path_str[k] : k \in 1..(Len(path_str) - 1)}
            in_post == <<PostDir, base>> \in fs
            in_bereal == <<BerealDir, base>> \in fs
            bereal_first == BerealDir \in hint_dirs /\ PostDir \notin hint_dirs
        IN /\ (call.ret = None) <=> (~in_post /\ ~in_bereal)
           /\ (in_post /\ ~in_bereal) => call.ret = <<PostDir, base>>
           /\ (in_bereal /\ ~in_post) => call.ret = <<BerealDir, base>>
           /\ (in_post /\ in_bereal) =>
                call.ret = IF bereal_first THEN <<BerealDir, base>> ELSE <<PostDir, base>>

\* C8 witness: a reference without layout hint whose basename is in both
\* subdirectories resolves to Photos/post.
C8_Witness ==
    /\ pc = "resolve" /\ call # NoCall
    /\ call.args[1] = <<"a.webp">>
    /\ <<BerealDir, "a.webp">> \in fs
    /\ call.ret = <<PostDir, "a.webp">>

\* the iteration on the input's record rec has made this kind of event on
\* the destination of this role
Did(op, rec, role, ok_only) ==
    \E k \in EvIdx :
        /\ IsOp(k, op) /\ events[k].rec = rec /\ events[k].file[3] = role
        /\ (ok_only => events[k].ok)

\* C9 as stated: create_composite is invoked for a record only when both of
\* its destination copies had their metadata embedded.
C9_CompositeOnlyAfterEmbedded ==
    \A k \in EvIdx :
        IsOp(k, "composite") =>
            /\ Did("embed", events[k].rec, "front", TRUE)
            /\ Did("embed", events[k].rec, "back", TRUE)

\* C9 amended: create_composite is invoked for a record exactly when
\* composites are enabled, the record is a memory, and both its images were
\* resolved and copied with a metadata embedding requested for each copy,
\* whether or not ExifTool succeeded; never for a reaction.
C9_CompositeExactlyWhenCopied ==
    /\ coll = "realmojis" => \A k \in EvIdx : ~IsOp(k, "composite")
    /\ coll = "memories" =>
         \A rec \in 1..Len(input) :
             Did("composite", rec, "composite", FALSE)
             <=> /\ cfg.create_composites
                 /\ InExportRoot(input[rec].frontImage)
                 /\ InExportRoot(input[rec].backImage)
                 /\ Did("copy", rec, "front", TRUE) /\ Did("embed", rec, "front", FALSE)
                 /\ Did("copy", rec, "back", TRUE) /\ Did("embed", rec, "back", FALSE)

\* C9 witness: a composite made of two copies of which the front one did
\* not get its metadata.
C9_Witness ==
    /\ coll = "memories"
    /\ \E k \in EvIdx :
         /\ IsOp(k, "composite")
         /\ ~Did("embed", events[k].rec, "front", TRUE)
         /\ Did("embed", events[k].rec, "back", TRUE)

\* the input records that reached the done state: copied, and progress shown
Done ==
    {rec \in 1..Len(input) :
        /\ \E k \in EvIdx : IsOp(k, "copy") /\ events[k].ok /\ events[k].rec = rec
        /\ \E k \in EvIdx : IsOp(k, "progress") /\ events[k].rec = rec}

\* C10: when the loop of a collection is exhausted the run has reported a
\* tally <<exported, skipped>>, the skipped count being the number of input
\* records that did not reach the done state.
C10_TallyReported ==
    Exhausted =>
        \E k \in EvIdx :
            /\ IsOp(k, "tally")
            /\ events[k].info[1] = Cardinality(Done)
            /\ events[k].info[2] = Len(input) - Cardinality(Done)

----------------------------------------------------------------------------
(* The construction of the exporter                                        *)

\* a --timespan value that is not two bounds, each "*" or a DD.MM.YYYY date
Malformed(timespan) ==
    /\ timespan # NoTimespan
    /\ \/ Len(timespan) # 2
       \/ \E k \in 1..Len(timespan) : timespan[k].kind \notin {"*", "date"}

\* C11: a run given a malformed explicit time span ends in the constructor with
\* a ValueError: no output directory has been created, no file copied, no
\* metadata embedded, no progress unit emitted and neither collection read.
C11_MalformedSpanFailsBeforeExport ==
    (call.fn = "init_time_span" /\ Malformed(call.args[1])) =>
        /\ pc = "config_error"
        /\ call.ret = Raise("ValueError")
        /\ out_dirs = {}
        /\ events = <<>>
        /\ queue = <<>> /\ i = 0
        /\ status = NoStatus

\* a run has failed on a span of two parts of which one is no date
C11_Witness ==
    /\ pc = "config_error"
    /\ Len(call.args[1]) = 2
    /\ Malformed(call.args[1])

----------------------------------------------------------------------------
(* The two collections of a run                                            *)

Collections == {"memories", "realmojis"}
Other(c) == IF c = "memories" THEN "realmojis" ELSE "memories"
RunOver == pc \in {"exit", "crashed"}

\* the runner has logged an error naming collection c's file
Reported(c) ==
    \E k \in EvIdx :
        /\ events[k].op = "log"
        /\ events[k].rec = 0
        /\ events[k].info[1] = IF c = "memories" THEN "memories.json" ELSE "realmojis.json"

\* C12: when the file of one collection is missing or cannot be parsed, the
\* run reports an error for that collection and goes on, it creates and
\* exports nothing for that collection, and at the end of the run the other
\* collection, if enabled and loaded, has been processed in full.
C12_CollectionScopedFailure ==
    /\ (status.memories = "load_failed" /\ status.realmojis = "unread") =>
           pc = "realmojis" /\ Reported("memories")
    /\ status.realmojis = "load_failed" => pc = "exit" /\ Reported("realmojis")
    /\ \A c \in Collections :
          (status[c] = "load_failed" /\ RunOver) =>
              /\ c \notin out_dirs
              /\ status[Other(c)] \in {"off", "load_failed", "done"}

----------------------------------------------------------------------------
(* The time window                                                         *)

\* C13: the window init_time_span returned for the run has start <= end,
\* and self.time_span is that window for the rest of the run.
C13_WindowOrderedAndFixed ==
    (call.fn = "init_time_span" /\ Returned(call.ret)) =>
        /\ time_span = call.ret.value
        /\ time_span[1] <= time_span[2]

----------------------------------------------------------------------------
(* The records of one export_* call                                        *)

\* the steps taken on records (the runner's own log lines carry record 0)
RecordSteps == {k \in EvIdx : events[k].rec # 0}

\* the position in the sorted list of the record step k works on
PosOf(k) == CHOOSE n \in 1..Len(queue) : queue[n] = events[k].rec

\* step k ends its record: done, or skipped for a missing file
Terminal(k) == events[k].op = "progress"

\* records are worked on one at a time in the order of the sorted list, and
\* a record is begun only after the one before it has ended
OneAtATimeInOrder ==
    \A j, k \in RecordSteps :
        j < k =>
            /\ PosOf(j) <= PosOf(k)
            /\ PosOf(j) < PosOf(k) =>
                   \E t \in RecordSteps : j <= t /\ t < k /\ Terminal(t)
                                            /\ events[t].rec = events[j].rec

\* no resolve, copy, embed or composite step follows the end of its record
NoStepAfterTerminal ==
    \A j, k \in RecordSteps :
        (j < k /\ Terminal(j)) => events[k].rec # events[j].rec

\* the export_* call has been left, by return or by an exception
CallOver == coll # "" /\ (Exhausted \/ status[coll] = "aborted")

\* C14: within a collection the records are handled one at a time in sorted
\* order, none is begun before the one before it is terminal, no step is
\* taken on a record after its terminal state, and when the export_* call is
\* over every record of the sorted list has reached its terminal state.
C14_RecordStateMachine ==
    coll \in Collections =>
        /\ OneAtATimeInOrder
        /\ NoStepAfterTerminal
        /\ CallOver => \A n \in 1..Len(queue) :
                          \E k \in RecordSteps : Terminal(k) /\ events[k].rec = queue[n]

----------------------------------------------------------------------------
(* What the run writes                                                     *)

\* the directories of the output root a collection's call writes into
OutputDirs(c) == IF c = "memories" THEN {"memories", "composites"} ELSE {"realmojis"}

\* step k has written its file: a finished copy or a saved composite
Wrote(k) == events[k].op \in {"copy", "composite"} /\ events[k].ok

\* C15: the export root is only read. Every copy, every in-place metadata
\* embedding and every composite save targets a path in a created directory
\* of the output root (memories/ and composites/ for memories, realmojis/
\* for reactions) that is no file of the export root; what is copied is a
\* file of the export root; and embedding is requested on a path only after
\* that path was written for the same record.
C15_ExportRootReadOnly ==
    \A k \in EvIdx :
        events[k].op \in {"copy", "embed", "composite"} =>
            /\ events[k].file \notin fs
            /\ events[k].file[1] \in OutputDirs(coll) \cap out_dirs
            /\ events[k].op = "copy" =>
                   events[k].info \in fs /\ events[k].file[1] \in {"memories", "realmojis"}
            /\ events[k].op = "composite" => events[k].file[1] = "composites"
            /\ events[k].op = "embed" =>
                   \E j \in 1..(k - 1) :
                       /\ Wrote(j)
                       /\ events[j].file = events[k].file
                       /\ events[j].rec = events[k].rec

\* metadata has been embedded in a copied image and in a saved composite
C15_Witness ==
    /\ \E k \in EvIdx : events[k].op = "embed" /\ events[k].file[1] = "composites"
    /\ \E k \in EvIdx : events[k].op = "embed" /\ events[k].file[1] = "memories"
                          /\ events[k].file[3] = "back"

====
